---- MODULE Spec2Model ----
(***************************************************************************)
(* Body & Health Monitoring System (src/app.py): the record store over     *)
(* health.db (users, health_data), the derivation functions and the        *)
(* Streamlit script, one action per script run.                            *)
(***************************************************************************)
EXTENDS Integers, Sequences, FiniteSets, TLC

VARIABLES
    db,             \* health.db: tables (schema), users, health_data, sqlite_sequence
    session_state,  \* st.session_state: keys logged_in, username (absent before the first run)
    clock,          \* the storage layer's wall clock, in seconds, when it was last read
    open_conns,     \* sqlite3 connections opened and not closed
    raised,         \* the exception that ended the last script run, or None
    ret,            \* what the store operation of the last run returned
    ui,             \* the st.success/st.error/st.warning/st.info/st.metric elements of the last run
    df,             \* the frame get_user_data_df returned in the last run
    last_login,     \* history: the credentials login_user accepted for the session that is open
    bmi_calls,      \* history: the (weight, height) pairs calculate_bmi was called with
    inserted,       \* history: the id and the clock of every INSERT into health_data, in order
    call,           \* a direct call of a derivation function: its name and arguments
    value           \* what that call returned

vars == <<db, session_state, clock, open_conns, raised, ret, ui, df,
          last_login, bmi_calls, inserted, call, value>>

None == "None"

(***************************************************************************)
(* Bounds of the model.                                                    *)
(***************************************************************************)
MaxRecords == 2
MaxBmi == 3100
\* The second of the hour at which the model starts
FirstSecond == 59

(***************************************************************************)
(* IEEE-754 binary64 arithmetic, as far as recommend_steps uses it.        *)
(* A non-negative number m * 2^e is [m |-> bits of m, little-endian,       *)
(* e |-> e]; every operation rounds its exact result to 53 significant     *)
(* bits, ties to even.                                                     *)
(***************************************************************************)
MantissaBits == 53

RECURSIVE Bits(_)
Bits(n) == IF n = 0 THEN <<>> ELSE <<n % 2>> \o Bits(n \div 2)

RECURSIVE Val(_)
Val(b) == IF b = <<>> THEN 0 ELSE b[1] + 2 * Val(Tail(b))

RECURSIVE Strip(_)
Strip(b) == IF b # <<>> /\ b[Len(b)] = 0 THEN Strip(SubSeq(b, 1, Len(b) - 1)) ELSE b

Zeros(n) == [i \in 1..n |-> 0]

ShiftLeft(b, s) == Zeros(s) \o b

Bit(b, i) == IF i <= Len(b) THEN b[i] ELSE 0

RECURSIVE AddFrom(_, _, _, _)
AddFrom(a, b, i, carry) ==
    IF i > Len(a) /\ i > Len(b)
    THEN (IF carry = 0 THEN <<>> ELSE <<carry>>)
    ELSE LET t == Bit(a, i) + Bit(b, i) + carry
         IN <<t % 2>> \o AddFrom(a, b, i + 1, t \div 2)

AddBits(a, b) == AddFrom(a, b, 1, 0)

RECURSIVE MulFrom(_, _, _, _)
MulFrom(a, k, i, carry) ==
    IF i > Len(a)
    THEN Bits(carry)
    ELSE LET t == a[i] * k + carry
         IN <<t % 2>> \o MulFrom(a, k, i + 1, t \div 2)

MulSmall(a, k) == MulFrom(a, k, 1, 0)

\* Big-endian hexadecimal digits to little-endian bits.
RECURSIVE HexBits(_)
HexBits(h) ==
    IF h = <<>> THEN <<>>
    ELSE LET d == h[Len(h)]
         IN <<d % 2, (d \div 2) % 2, (d \div 4) % 2, (d \div 8) % 2>>
            \o HexBits(SubSeq(h, 1, Len(h) - 1))

\* Round to nearest, ties to even, to MantissaBits significant bits.
Round53(bits, e) ==
    LET m == Strip(bits)
        L == Len(m)
        s == L - MantissaBits
    IN IF s <= 0 THEN [m |-> m, e |-> e]
       ELSE LET q      == SubSeq(m, s + 1, L)
                half   == m[s]
                sticky == \E i \in 1..(s - 1) : m[i] = 1
                up     == half = 1 /\ (sticky \/ q[1] = 1)
            IN [m |-> IF up THEN AddBits(q, <<1>>) ELSE q, e |-> e + s]

IntToFloat(n) == [m |-> Bits(n), e |-> 0]

FMin(x, y) == IF x < y THEN x ELSE y

\* float + float
FAdd(a, b) ==
    LET e == FMin(a.e, b.e)
    IN Round53(AddBits(ShiftLeft(a.m, a.e - e), ShiftLeft(b.m, b.e - e)), e)

\* int * float: the int converts exactly (it is below 2^53), the product is rounded
FMulInt(n, f) == Round53(MulSmall(f.m, n), f.e)

\* The least integer not below a non-negative float, where int(x) takes the greatest
\* not above it
Ceil(f) ==
    IF f.e >= 0 THEN Val(ShiftLeft(f.m, f.e))
    ELSE IF -f.e >= Len(f.m) THEN (IF f.m = <<>> THEN 0 ELSE 1)
    ELSE Val(SubSeq(f.m, 1 - f.e, Len(f.m)))
         + (IF \E i \in 1..(-f.e) : f.m[i] = 1 THEN 1 ELSE 0)

\* int(x) of a non-negative float: truncation toward zero
Trunc(f) ==
    IF f.e >= 0 THEN Val(ShiftLeft(f.m, f.e))
    ELSE IF -f.e >= Len(f.m) THEN 0
    ELSE Val(SubSeq(f.m, 1 - f.e, Len(f.m)))

\* The literal 0.1 is 0x1.999999999999ap-4 and 0.05 is 0x1.999999999999ap-5.
Float0_1 == [m |-> HexBits(<<1, 9, 9, 9, 9, 9, 9, 9, 9, 9, 9, 9, 9, 10>>), e |-> -56]
Float0_05 == [m |-> HexBits(<<1, 9, 9, 9, 9, 9, 9, 9, 9, 9, 9, 9, 9, 10>>), e |-> -57]

(***************************************************************************)
(* Sample inputs.  Weights are kilograms, heights centimetres; a BMI is a  *)
(* whole number of hundredths (round(x, 2) returns the double nearest to a *)
(* two-decimal number, and the literals 18.5, 24.9, 25 and 29.9 compare    *)
(* with such doubles as the decimals do).                                  *)
(***************************************************************************)
Usernames == {"alice", "bob"}
Passwords == {"pw1", "pw2"}
Names == {"", "Ann"}
GenderOptions == {"Male", "Female", "Other"}
GoalOptions == {"Weight Loss", "Muscle Building", "Weight Gain"}
\* The options the model's user picks in the form
Genders == {"Male", "Other"}
Goals == {"Weight Gain"}
Ages == {0, 30}
Weights == {0, 70}
Heights == {0, 175}
BloodPressures == {"", "120/80"}

(***************************************************************************)
(* hash_password, lines 48-49: the SHA-256 hex digest (its first twelve    *)
(* digits) of the sample passwords.                                        *)
(***************************************************************************)
hash_password(password) ==
    CASE password = "pw1" -> "c592df4a8693"
      [] password = "pw2" -> "93915a0a4bf8"
      [] password = ""    -> "e3b0c44298fc"

(***************************************************************************)
(* Derivation functions, lines 89-118.                                     *)
(***************************************************************************)
\* n / d rounded to the nearest integer, ties to even (d > 0, n >= 0)
RoundDiv(n, d) ==
    LET q == n \div d
        r == n % d
    IN IF 2 * r > d \/ (2 * r = d /\ q % 2 = 1) THEN q + 1 ELSE q

\* height_m = height_cm / 100; round(weight / height_m ** 2, 2), in hundredths
calculate_bmi(weight, height_cm) ==
    IF height_cm = 0
    THEN [raised |-> "ZeroDivisionError", bmi |-> 0]
    ELSE [raised |-> None, bmi |-> RoundDiv(weight * 1000000, height_cm * height_cm)]

BaseSteps == 6000
WeightLossSteps == 2000
MuscleBuildingSteps == 1000
WeightGainSteps == 500

recommend_steps(weight, height, age, gender, goal) ==
    LET factor == CASE gender = "Male"   -> FAdd(IntToFloat(1), Float0_1)
                    [] gender = "Female" -> FAdd(IntToFloat(1), Float0_05)
                    [] OTHER             -> IntToFloat(1)
        base   == CASE goal = "Weight Loss"     -> BaseSteps + WeightLossSteps
                    [] goal = "Muscle Building" -> BaseSteps + MuscleBuildingSteps
                    [] goal = "Weight Gain"     -> BaseSteps + WeightGainSteps
                    [] OTHER                    -> BaseSteps
    IN Trunc(FMulInt(base, factor))

Bmi18_5 == 1850
Bmi24_9 == 2490
Bmi25 == 2500
Bmi29_9 == 2990

\* A labelling whose second band reaches up to 25, so that no value falls between
\* "Normal" and "Overweight"
interpret_bmi_without_gap(bmi) ==
    IF bmi < Bmi18_5 THEN <<"Underweight", "Ideal: 18.5 - 24.9">>
    ELSE IF bmi < Bmi25 THEN <<"Normal", "Ideal">>
    ELSE IF bmi <= Bmi29_9 THEN <<"Overweight", "Ideal: 18.5 - 24.9">>
    ELSE <<"Obese", "Ideal: 18.5 - 24.9">>

\* The label is <<category, hint>>: "Normal (Ideal)" is <<"Normal", "Ideal">>.
interpret_bmi(bmi) ==
    IF bmi < Bmi18_5 THEN <<"Underweight", "Ideal: 18.5 - 24.9">>
    ELSE IF Bmi18_5 <= bmi /\ bmi <= Bmi24_9 THEN <<"Normal", "Ideal">>
    ELSE IF Bmi25 <= bmi /\ bmi <= Bmi29_9 THEN <<"Overweight", "Ideal: 18.5 - 24.9">>
    ELSE <<"Obese", "Ideal: 18.5 - 24.9">>

(***************************************************************************)
(* The SQLite store.  db.tables maps each existing table to the set of its *)
(* columns (the statements name their columns; their order plays no part); *)
(* a row is a record; health_data is the set of its rows, keyed by the     *)
(* rowid (id), and sqlite_sequence is the largest id AUTOINCREMENT gave.   *)
(***************************************************************************)
UsersColumns == {"username", "password"}

HealthColumns ==
    {"id", "username", "name", "gender", "goal", "age", "weight", "height",
     "blood_pressure", "bmi", "steps_recommended", "timestamp"}

\* A health_data table made before gender and goal were part of CREATE TABLE.
LegacyHealthColumns ==
    {"id", "username", "name", "age", "weight", "height",
     "blood_pressure", "bmi", "steps_recommended", "timestamp"}

InsertColumns ==
    {"username", "name", "gender", "goal", "age", "weight", "height",
     "blood_pressure", "bmi", "steps_recommended"}

NoTables == [t \in {} |-> {}]

EmptyDB == [tables |-> NoTables, users |-> {}, health_data |-> {}, sqlite_sequence |-> 0]

LegacyDB ==
    [tables |-> [t \in {"users", "health_data"} |->
                    IF t = "users" THEN UsersColumns ELSE LegacyHealthColumns],
     users |-> {}, health_data |-> {}, sqlite_sequence |-> 0]

\* The exceptions of sqlite3 the code names.
OperationalError == "OperationalError"
IntegrityError == "IntegrityError"

\* The store operation whose first statement fails with an OperationalError that the
\* state of the store does not explain (a locked or unreadable file); NoFault: none.
NoFault == "none"
Faults ==
    {"create_tables", "register_user", "login_user", "insert_health_data", "get_user_data_df"}

HasTable(d, t) == t \in DOMAIN d.tables

\* CREATE TABLE IF NOT EXISTS
CreateTableIfNotExists(d, t, cols) ==
    IF HasTable(d, t) THEN d
    ELSE [d EXCEPT !.tables = [x \in DOMAIN d.tables \cup {t} |->
                                  IF x = t THEN cols ELSE d.tables[x]]]

\* ALTER TABLE t ADD COLUMN col: "duplicate column name" is an OperationalError
AlterTableAddColumn(d, t, col) ==
    IF col \in d.tables[t]
    THEN [db |-> d, err |-> OperationalError]
    ELSE [db |-> [d EXCEPT !.tables[t] = @ \cup {col}], err |-> None]

\* create_tables without the two except clauses: the OperationalError of an ALTER
\* TABLE leaves the function, the connection still open
create_tables_uncaught(d, fault) ==
    IF fault = "create_tables"
    THEN [db |-> d, raised |-> OperationalError, leaked |-> 1]
    ELSE LET d1 == CreateTableIfNotExists(d, "users", UsersColumns)
             d2 == CreateTableIfNotExists(d1, "health_data", HealthColumns)
             a1 == AlterTableAddColumn(d2, "health_data", "gender")
             a2 == AlterTableAddColumn(a1.db, "health_data", "goal")
         IN IF a1.err # None THEN [db |-> d2, raised |-> a1.err, leaked |-> 1]
            ELSE IF a2.err # None THEN [db |-> a1.db, raised |-> a2.err, leaked |-> 1]
            ELSE [db |-> a2.db, raised |-> None, leaked |-> 0]

\* lines 9-46.  leaked counts the connections the call opened and did not close.
create_tables(d, fault) ==
    IF fault = "create_tables"
    THEN [db |-> d, raised |-> OperationalError, leaked |-> 1]
    ELSE LET d1 == CreateTableIfNotExists(d, "users", UsersColumns)
             d2 == CreateTableIfNotExists(d1, "health_data", HealthColumns)
             a1 == AlterTableAddColumn(d2, "health_data", "gender")
             d3 == IF a1.err = OperationalError THEN d2 ELSE a1.db
             a2 == AlterTableAddColumn(d3, "health_data", "goal")
             d4 == IF a2.err = OperationalError THEN d3 ELSE a2.db
         IN [db |-> d4, raised |-> None, leaked |-> 0]

\* INSERT INTO a users table whose username is no key
InsertUserUnchecked(d, row) ==
    IF ~HasTable(d, "users")
    THEN [db |-> d, err |-> OperationalError]
    ELSE [db |-> [d EXCEPT !.users = @ \cup {row}], err |-> None]

\* INSERT INTO users: username is the PRIMARY KEY
InsertUser(d, row) ==
    IF ~HasTable(d, "users")
    THEN [db |-> d, err |-> OperationalError]
    ELSE IF \E r \in d.users : r.username = row.username
    THEN [db |-> d, err |-> IntegrityError]
    ELSE [db |-> [d EXCEPT !.users = @ \cup {row}], err |-> None]

\* lines 51-61: try / except IntegrityError / finally conn.close()
register_user(d, username, password, fault) ==
    IF fault = "register_user"
    THEN [db |-> d, ret |-> FALSE, raised |-> OperationalError, leaked |-> 0]
    ELSE LET i == InsertUser(d, [username |-> username, password |-> hash_password(password)])
         IN IF i.err = IntegrityError
            THEN [db |-> d, ret |-> FALSE, raised |-> None, leaked |-> 0]
            ELSE IF i.err # None
            THEN [db |-> d, ret |-> FALSE, raised |-> i.err, leaked |-> 0]
            ELSE [db |-> i.db, ret |-> TRUE, raised |-> None, leaked |-> 0]

\* SELECT * FROM users WHERE username=?
SelectUserByName(d, username, digest) == {r \in d.users : r.username = username}

\* SELECT * FROM users WHERE username=? AND password=?
SelectUser(d, username, digest) ==
    {r \in d.users : r.username = username /\ r.password = digest}

\* lines 63-69.  data is fetchone(): <<>> for None, else <<the row>>.
login_user(d, username, password, fault) ==
    IF fault = "login_user" \/ ~HasTable(d, "users")
    THEN [data |-> <<>>, raised |-> OperationalError, leaked |-> 1]
    ELSE LET rows == SelectUser(d, username, hash_password(password))
         IN [data |-> IF rows = {} THEN <<>>
                      ELSE LET r == CHOOSE r \in rows : TRUE
                           IN <<<<r.username, r.password>>>>,
             raised |-> None, leaked |-> 0]

\* DEFAULT CURRENT_TIMESTAMP: the clock as text, 'MM:SS' of 'YYYY-MM-DD HH:MM:SS'
SecondsPerMinute == 60
CurrentTimestamp(now) == <<now \div SecondsPerMinute, now % SecondsPerMinute>>

\* pd.to_datetime of that text
to_datetime(text) == text[1] * SecondsPerMinute + text[2]

\* INSERT OR REPLACE INTO health_data with the id of the newest row
InsertHealthRowReplacing(d, fields, now) ==
    IF ~HasTable(d, "health_data") \/ ~(InsertColumns \subseteq d.tables["health_data"])
    THEN [db |-> d, err |-> OperationalError]
    ELSE LET id  == IF d.sqlite_sequence = 0 THEN 1 ELSE d.sqlite_sequence
             row == [id |-> id, username |-> fields.username, name |-> fields.name,
                     gender |-> fields.gender, goal |-> fields.goal, age |-> fields.age,
                     weight |-> fields.weight, height |-> fields.height,
                     blood_pressure |-> fields.blood_pressure, bmi |-> fields.bmi,
                     steps_recommended |-> fields.steps_recommended,
                     timestamp |-> CurrentTimestamp(now)]
         IN [db |-> [d EXCEPT !.health_data = {r \in @ : r.id # id} \cup {row},
                              !.sqlite_sequence = id],
             err |-> None]

\* INSERT INTO health_data: AUTOINCREMENT gives an id above every id ever used
InsertHealthRow(d, fields, now) ==
    IF ~HasTable(d, "health_data") \/ ~(InsertColumns \subseteq d.tables["health_data"])
    THEN [db |-> d, err |-> OperationalError]
    ELSE LET id  == d.sqlite_sequence + 1
             row == [id |-> id, username |-> fields.username, name |-> fields.name,
                     gender |-> fields.gender, goal |-> fields.goal, age |-> fields.age,
                     weight |-> fields.weight, height |-> fields.height,
                     blood_pressure |-> fields.blood_pressure, bmi |-> fields.bmi,
                     steps_recommended |-> fields.steps_recommended,
                     timestamp |-> CurrentTimestamp(now)]
         IN [db |-> [d EXCEPT !.health_data = @ \cup {row}, !.sqlite_sequence = id],
             err |-> None]

\* lines 71-79
insert_health_data(d, fields, now, fault) ==
    IF fault = "insert_health_data"
    THEN [db |-> d, raised |-> OperationalError, leaked |-> 1]
    ELSE LET i == InsertHealthRow(d, fields, now)
         IN IF i.err # None
            THEN [db |-> d, raised |-> i.err, leaked |-> 1]
            ELSE [db |-> i.db, raised |-> None, leaked |-> 0]

\* The scan PRAGMA reverse_unordered_selects gives: descending rowid
RECURSIVE TableScanDescending(_)
TableScanDescending(rows) ==
    IF rows = {} THEN <<>>
    ELSE LET r == CHOOSE r \in rows : \A x \in rows : r.id >= x.id
         IN <<r>> \o TableScanDescending(rows \ {r})

\* A SELECT without ORDER BY and without a usable index walks the table's
\* B-tree, that is, in ascending rowid.
RECURSIVE TableScan(_)
TableScan(rows) ==
    IF rows = {} THEN <<>>
    ELSE LET r == CHOOSE r \in rows : \A x \in rows : r.id <= x.id
         IN <<r>> \o TableScan(rows \ {r})

\* lines 81-86: the nine selected columns of the user's rows, timestamp parsed
get_user_data_df(d, username, fault) ==
    IF fault = "get_user_data_df" \/ ~HasTable(d, "health_data")
    THEN [rows |-> <<>>, raised |-> OperationalError, leaked |-> 1]
    ELSE LET Mine(r) == r.username = username
             hit == SelectSeq(TableScan(d.health_data), Mine)
         IN [rows |-> [i \in 1..Len(hit) |->
                          [timestamp |-> to_datetime(hit[i].timestamp),
                           name |-> hit[i].name, gender |-> hit[i].gender,
                           goal |-> hit[i].goal, age |-> hit[i].age,
                           weight |-> hit[i].weight, height |-> hit[i].height,
                           bmi |-> hit[i].bmi,
                           steps_recommended |-> hit[i].steps_recommended]],
             raised |-> None, leaked |-> 0]

(***************************************************************************)
(* The Streamlit script, lines 121-236.  Every interaction reruns the      *)
(* script from the top: create_tables(), the session defaults, then the    *)
(* branch of the page the user acted on.  An action is one such run.       *)
(***************************************************************************)
MaxLeaked == 2

Elem(kind, text, args) == [kind |-> kind, text |-> text, args |-> args]

NoRet == [fn |-> None, ok |-> FALSE, data |-> <<>>]
NoFrame == [fetched |-> FALSE, username |-> "", rows |-> <<>>]
NoCall == [fn |-> None, args |-> <<>>]

hist == <<last_login, bmi_calls, inserted>>

\* lines 125-128
SessionInit(s) ==
    [k \in {"logged_in", "username"} |->
        IF k \in DOMAIN s THEN s[k]
        ELSE IF k = "logged_in" THEN FALSE ELSE ""]

\* The page of the last run showed the Login / Register menu (line 132).
LoggedOut == "logged_in" \in DOMAIN session_state /\ ~session_state["logged_in"]

\* The page of the last run showed the action radio (line 159).
LoggedIn == "logged_in" \in DOMAIN session_state /\ session_state["logged_in"]

\* Python's truth value of a str and of a number (line 186)
TruthyStr(x) == x # ""
TruthyNum(x) == x # 0

Init ==
    /\ db \in {EmptyDB, LegacyDB}
    /\ session_state = [k \in {} |-> FALSE]
    /\ clock = FirstSecond
    /\ open_conns = 0
    /\ raised = None
    /\ ret = NoRet
    /\ ui = <<>>
    /\ df = NoFrame
    /\ last_login = <<>>
    /\ bmi_calls = {}
    /\ inserted = <<>>
    /\ call = NoCall
    /\ value = <<>>

\* What one run of the script leaves behind: the store, the session, the exception it
\* ended with, the connections it left open, what its store operation returned, what
\* it showed, the frame it read, the calculate_bmi calls it made, the rows it stored.
Outcome(d, s, err, leaked, r, elems, frame) ==
    [db |-> d, session_state |-> s, raised |-> err, leaked |-> leaked, ret |-> r,
     ui |-> elems, df |-> frame, calls |-> {}, stored |-> <<>>]

\* The run ends with an uncaught exception: Streamlit shows it and waits.
Aborted(d, s, err, leaked) ==
    Outcome(d, s, err, leaked, NoRet, <<Elem("exception", err, <<>>)>>, NoFrame)

\* The run ends normally.
Completed(d, s, r, elems, frame) == Outcome(d, s, None, 0, r, elems, frame)

\* A run no button takes part in: the first load, a reload, a change of the menu or of
\* the radio to "Add Health Data" (lines 121-128 and the widgets).
RunPage(d, ss, fault) ==
    LET ct == create_tables(d, fault)
    IN IF ct.raised # None
       THEN Aborted(ct.db, ss, ct.raised, ct.leaked)
       ELSE Completed(ct.db, SessionInit(ss), NoRet, <<>>, NoFrame)

\* lines 121-128, 135-146: the Register button
RunRegister(d, ss, new_user, new_pass, confirm_pass, fault) ==
    LET ct == create_tables(d, fault)
        s  == SessionInit(ss)
        r  == register_user(ct.db, new_user, new_pass, fault)
    IN IF ct.raised # None
       THEN Aborted(ct.db, ss, ct.raised, ct.leaked)
       ELSE IF new_pass # confirm_pass
       THEN Completed(ct.db, s, NoRet,
                      <<Elem("error", "Passwords do not match.", <<>>)>>, NoFrame)
       ELSE IF r.raised # None
       THEN Aborted(ct.db, s, r.raised, r.leaked)
       ELSE Completed(r.db, s, [fn |-> "register_user", ok |-> r.ret, data |-> <<>>],
                      IF r.ret
                      THEN <<Elem("success", "Account created! Go to Login.", <<>>)>>
                      ELSE <<Elem("error", "Username already exists.", <<>>)>>,
                      NoFrame)

\* lines 121-128, 148-158: the Login button
RunLogin(d, ss, username, password, fault) ==
    LET ct == create_tables(d, fault)
        s  == SessionInit(ss)
        r  == login_user(ct.db, username, password, fault)
    IN IF ct.raised # None
       THEN Aborted(ct.db, ss, ct.raised, ct.leaked)
       ELSE IF r.raised # None
       THEN Aborted(ct.db, s, r.raised, r.leaked)
       ELSE IF r.data # <<>>
       THEN Completed(ct.db, [s EXCEPT !["logged_in"] = TRUE, !["username"] = username],
                      [fn |-> "login_user", ok |-> TRUE, data |-> r.data],
                      <<Elem("success", "Welcome", <<username>>)>>, NoFrame)
       ELSE Completed(ct.db, s, [fn |-> "login_user", ok |-> FALSE, data |-> r.data],
                      <<Elem("error", "Invalid credentials", <<>>)>>, NoFrame)

Sum(rows) == LET RECURSIVE go(_)
                 go(i) == IF i = 0 THEN 0 ELSE rows[i].steps_recommended + go(i - 1)
             IN go(Len(rows))

MaxTimestamp(rows) ==
    CHOOSE t \in {rows[i].timestamp : i \in DOMAIN rows} :
        \A i \in DOMAIN rows : rows[i].timestamp <= t

\* What each of the three pages shows of the frame: lines 166-173, 218, 223-231
Metrics(rows) ==
    IF rows # <<>>
    THEN <<Elem("metric", "Latest BMI", <<rows[Len(rows)].bmi>>),
           Elem("metric", "Avg Steps", <<Sum(rows) \div Len(rows)>>),
           Elem("metric", "Total Records", <<Len(rows)>>),
           Elem("metric", "Last Entry", <<MaxTimestamp(rows) \div SecondsPerMinute>>)>>
    ELSE <<Elem("info", "No data available yet.", <<>>)>>

Dataframe(rows) == <<Elem("dataframe", "", rows)>>

Chart(rows) ==
    IF rows # <<>>
    THEN <<Elem("altair_chart", "", [i \in DOMAIN rows |-> <<rows[i].timestamp, rows[i].bmi>>])>>
    ELSE <<Elem("warning", "No records to display.", <<>>)>>

\* What the page chosen in the radio shows of the frame
Page(action, rows) ==
    CASE action = "Dashboard"    -> Metrics(rows)
      [] action = "View Records" -> Dataframe(rows)
      [] action = "Graph"        -> Chart(rows)

\* lines 121-128 and one of the three pages that read the records
RunFetch(d, ss, fault, action) ==
    LET ct == create_tables(d, fault)
        s  == SessionInit(ss)
        r  == get_user_data_df(ct.db, s["username"], fault)
    IN IF ct.raised # None
       THEN Aborted(ct.db, ss, ct.raised, ct.leaked)
       ELSE IF r.raised # None
       THEN Aborted(ct.db, s, r.raised, r.leaked)
       ELSE Completed(ct.db, s, [fn |-> "get_user_data_df", ok |-> TRUE, data |-> <<>>],
                      Page(action, r.rows),
                      [fetched |-> TRUE, username |-> s["username"], rows |-> r.rows])

\* The test of line 186 without its height
AllFilledButHeight(name, gender, goal, age, weight, height, bp) ==
    /\ TruthyStr(name) /\ TruthyStr(gender) /\ TruthyStr(goal)
    /\ TruthyNum(age) /\ TruthyNum(weight)
    /\ TruthyStr(bp)

\* line 186: name and gender and goal and age and weight and height and bp
AllFilled(name, gender, goal, age, weight, height, bp) ==
    /\ TruthyStr(name) /\ TruthyStr(gender) /\ TruthyStr(goal)
    /\ TruthyNum(age) /\ TruthyNum(weight) /\ TruthyNum(height)
    /\ TruthyStr(bp)

Filled(form) ==
    AllFilled(form.name, form.gender, form.goal, form.age, form.weight, form.height, form.bp)

\* lines 121-128, 175-213: the Submit button.  now is the storage layer's clock at
\* the INSERT.
RunSubmit(d, ss, form, now, fault) ==
    LET ct == create_tables(d, fault)
        s  == SessionInit(ss)
        b  == calculate_bmi(form.weight, form.height)
        steps == recommend_steps(form.weight, form.height, form.age, form.gender, form.goal)
        fields == [username |-> s["username"], name |-> form.name, gender |-> form.gender,
                   goal |-> form.goal, age |-> form.age, weight |-> form.weight,
                   height |-> form.height, blood_pressure |-> form.bp, bmi |-> b.bmi,
                   steps_recommended |-> steps]
        i  == insert_health_data(ct.db, fields, now, fault)
        bmi_call == {<<form.weight, form.height>>}
    IN IF ct.raised # None
       THEN Aborted(ct.db, ss, ct.raised, ct.leaked)
       ELSE IF ~Filled(form)
       THEN Completed(ct.db, s, NoRet,
                      <<Elem("warning", "Please fill all fields.", <<>>)>>, NoFrame)
       ELSE IF b.raised # None
       THEN [Aborted(ct.db, s, b.raised, 0) EXCEPT !.calls = bmi_call]
       ELSE IF i.raised # None
       THEN [Aborted(ct.db, s, i.raised, i.leaked) EXCEPT !.calls = bmi_call]
       ELSE [Completed(i.db, s,
                       [fn |-> "insert_health_data", ok |-> TRUE, data |-> <<>>],
                       <<Elem("success", "Your BMI", <<b.bmi, interpret_bmi(b.bmi)>>),
                         Elem("info", "Recommended Steps", <<steps>>),
                         Elem("plotly_chart", "BMI Indicator", <<b.bmi>>)>>,
                       NoFrame)
             EXCEPT !.calls = bmi_call,
                    !.stored = <<[id |-> i.db.sqlite_sequence, now |-> now]>>]

\* A Logout that forgets to clear the username
RunLogoutKeepingName(d, ss, fault) ==
    LET ct == create_tables(d, fault)
        s  == SessionInit(ss)
    IN IF ct.raised # None
       THEN Aborted(ct.db, ss, ct.raised, ct.leaked)
       ELSE Completed(ct.db, [s EXCEPT !["logged_in"] = FALSE], NoRet,
                      <<Elem("success", "You have been logged out.", <<>>)>>, NoFrame)

\* lines 121-128, 233-236: the radio on Logout
RunLogout(d, ss, fault) ==
    LET ct == create_tables(d, fault)
        s  == SessionInit(ss)
    IN IF ct.raised # None
       THEN Aborted(ct.db, ss, ct.raised, ct.leaked)
       ELSE Completed(ct.db, [s EXCEPT !["logged_in"] = FALSE, !["username"] = ""], NoRet,
                      <<Elem("success", "You have been logged out.", <<>>)>>, NoFrame)

(***************************************************************************)
(* The actions: the user's interaction picks the run and its inputs.       *)
(***************************************************************************)
\* A store operation may fail only while the model's count of leaked connections allows.
FaultAllowed(fault) == IF fault = NoFault THEN TRUE ELSE open_conns < MaxLeaked

Apply(o) ==
    /\ db' = o.db
    /\ session_state' = o.session_state
    /\ open_conns' = open_conns + o.leaked
    /\ raised' = o.raised
    /\ ret' = o.ret
    /\ ui' = o.ui
    /\ df' = o.df
    /\ bmi_calls' = bmi_calls \cup o.calls
    /\ inserted' = inserted \o o.stored
    /\ clock' = IF o.stored = <<>> THEN clock ELSE o.stored[1].now
    /\ UNCHANGED <<call, value>>

PageLoad(fault) ==
    /\ FaultAllowed(fault)
    /\ Apply(RunPage(db, session_state, fault))
    /\ UNCHANGED last_login

Register(fault) ==
    /\ LoggedOut
    /\ FaultAllowed(fault)
    /\ \E new_user \in Usernames, new_pass \in Passwords, confirm_pass \in Passwords :
          Apply(RunRegister(db, session_state, new_user, new_pass, confirm_pass, fault))
    /\ UNCHANGED last_login

Login(fault) ==
    /\ LoggedOut
    /\ FaultAllowed(fault)
    /\ \E username \in Usernames, password \in Passwords :
          LET o == RunLogin(db, session_state, username, password, fault)
          IN /\ Apply(o)
             /\ last_login' = IF o.ret.ok
                              THEN <<[username |-> username, password |-> password]>>
                              ELSE last_login

Dashboard(fault) ==
    /\ LoggedIn
    /\ FaultAllowed(fault)
    /\ Apply(RunFetch(db, session_state, fault, "Dashboard"))
    /\ UNCHANGED last_login

ViewRecords(fault) ==
    /\ LoggedIn
    /\ FaultAllowed(fault)
    /\ Apply(RunFetch(db, session_state, fault, "View Records"))
    /\ UNCHANGED last_login

Graph(fault) ==
    /\ LoggedIn
    /\ FaultAllowed(fault)
    /\ Apply(RunFetch(db, session_state, fault, "Graph"))
    /\ UNCHANGED last_login

Forms ==
    [name : Names, gender : Genders, goal : Goals, age : Ages, weight : Weights,
     height : Heights, bp : BloodPressures]

\* The clock at the INSERT is not before its last reading.
Submit(fault) ==
    /\ LoggedIn
    /\ FaultAllowed(fault)
    /\ \E form \in Forms :
          \E now \in IF Filled(form) THEN {clock, clock + 1} ELSE {clock} :
             /\ Filled(form) => Cardinality(db.health_data) < MaxRecords
             /\ Apply(RunSubmit(db, session_state, form, now, fault))
    /\ UNCHANGED last_login

Logout(fault) ==
    /\ LoggedIn
    /\ FaultAllowed(fault)
    /\ LET o == RunLogout(db, session_state, fault)
       IN /\ Apply(o)
          /\ last_login' = IF o.raised = None THEN <<>> ELSE last_login

\* A Connection object nothing refers to any more is closed when it is collected.
Finalize ==
    /\ open_conns > 0
    /\ open_conns' = 0
    /\ UNCHANGED <<db, session_state, clock, raised, ret, ui, df, hist, call, value>>

Next ==
    \/ PageLoad(NoFault)
    \/ Register(NoFault)
    \/ Login(NoFault)
    \/ Dashboard(NoFault)
    \/ Submit(NoFault)
    \/ ViewRecords(NoFault)
    \/ Graph(NoFault)
    \/ Logout(NoFault)

Spec == Init /\ [][Next]_vars

(***************************************************************************)
(* The same script over a store whose statements may fail: each run either *)
(* meets no failure or meets one in a store operation it calls.            *)
(***************************************************************************)
NextFault ==
    \/ Next
    \/ PageLoad("create_tables")
    \/ Register("create_tables")
    \/ Register("register_user")
    \/ Login("create_tables")
    \/ Login("login_user")
    \/ Dashboard("create_tables")
    \/ Dashboard("get_user_data_df")
    \/ Submit("create_tables")
    \/ Submit("insert_health_data")
    \/ ViewRecords("get_user_data_df")
    \/ Graph("get_user_data_df")
    \/ Logout("create_tables")
    \/ Finalize

SpecFault == Init /\ [][NextFault]_vars

(***************************************************************************)
(* The derivation functions called directly, on arguments of every kind.   *)
(***************************************************************************)
GenderValues == GenderOptions \cup {"", "male"}
GoalValues == GoalOptions \cup {"", "Maintain"}
SampleWeights == {0, 50, 70, 90}
SampleHeights == {0, 160, 175}
SampleAges == {0, 30, 60}

StepsCalls ==
    [fn : {"recommend_steps"},
     args : SampleWeights \X SampleHeights \X SampleAges \X GenderValues \X GoalValues]

BmiCalls == [fn : {"interpret_bmi"}, args : {<<b>> : b \in 0..MaxBmi}]

InitDeriv ==
    /\ db = EmptyDB
    /\ session_state = [k \in {} |-> FALSE]
    /\ clock = FirstSecond
    /\ open_conns = 0
    /\ raised = None
    /\ ret = NoRet
    /\ ui = <<>>
    /\ df = NoFrame
    /\ last_login = <<>>
    /\ bmi_calls = {}
    /\ inserted = <<>>
    /\ call \in StepsCalls \cup BmiCalls
    /\ value = <<>>

CallRecommendSteps ==
    /\ call.fn = "recommend_steps"
    /\ value = <<>>
    /\ value' = <<recommend_steps(call.args[1], call.args[2], call.args[3],
                                  call.args[4], call.args[5])>>
    /\ UNCHANGED <<db, session_state, clock, open_conns, raised, ret, ui, df, hist, call>>

CallInterpretBmi ==
    /\ call.fn = "interpret_bmi"
    /\ value = <<>>
    /\ value' = <<interpret_bmi(call.args[1])>>
    /\ UNCHANGED <<db, session_state, clock, open_conns, raised, ret, ui, df, hist, call>>

NextDeriv == CallRecommendSteps \/ CallInterpretBmi

SpecDeriv == InitDeriv /\ [][NextDeriv]_vars

(***************************************************************************)
(* Properties.                                                             *)
(***************************************************************************)
UserRow(u, p) == [username |-> u, password |-> hash_password(p)]

Loaded == HasTable(db, "users") /\ HasTable(db, "health_data")

Shows(kind, text) == ui = <<Elem(kind, text, <<>>)>>

\* What register_user does on the store at hand, for every username and password
RegisterOnStore ==
    /\ \A r1, r2 \in db.users : r1.username = r2.username => r1 = r2
    /\ Loaded =>
         \A u \in Usernames, p \in Passwords :
            LET r == register_user(db, u, p, NoFault)
                present == \E row \in db.users : row.username = u
            IN /\ r.raised = None
               /\ present => (r.ret = FALSE /\ r.db = db)
               /\ ~present =>
                     /\ r.ret = TRUE
                     /\ r.db.users = db.users \cup {UserRow(u, p)}
                     /\ Cardinality(r.db.users) = Cardinality(db.users) + 1
                     /\ r.db.health_data = db.health_data

\* What the run that called register_user showed
RegisterShown ==
    ret.fn = "register_user" =>
         /\ raised = None
         /\ ret.ok <=> Shows("success", "Account created! Go to Login.")
         /\ ~ret.ok <=> Shows("error", "Username already exists.")

\* C1: users holds at most one row per username.  register_user(u, p) for a username
\* not yet present returns True and adds exactly the row (u, digest(p)); for a username
\* already present it returns False, raises nothing and leaves users unchanged; no run
\* removes or changes a row, so the digest stored for a username stays that of its
\* first registration.
C1_RegisterOncePerUsername ==
    /\ RegisterOnStore
    /\ RegisterShown
    /\ [][/\ db' # db => RegisterOnStore'
          /\ RegisterShown'
          /\ \A r \in db.users : r \in db'.users
          /\ db'.users # db.users =>
                /\ ret'.fn = "register_user" /\ ret'.ok
                /\ Cardinality(db'.users) = Cardinality(db.users) + 1
          /\ ret'.fn = "register_user" => (ret'.ok <=> db'.users # db.users)]_vars

\* A registration was refused because the username is taken.
C1_Witness ==
    /\ ret.fn = "register_user" /\ ~ret.ok
    /\ Shows("error", "Username already exists.")
    /\ Cardinality(db.users) = 2

\* C2: in every state of users, login_user(u, p) returns a user exactly when a row has
\* username u and the digest of p; otherwise it returns None, and the run shows
\* "Invalid credentials" and changes neither the store nor the session, whether u is
\* registered (wrong password) or not.
C2_LoginExactMatch ==
    /\ (LoggedOut /\ Loaded) =>
         \A u \in Usernames, p \in Passwords :
            LET r == login_user(db, u, p, NoFault)
                o == RunLogin(db, session_state, u, p, NoFault)
                match == \E row \in db.users :
                            row.username = u /\ row.password = hash_password(p)
            IN /\ r.raised = None
               /\ match =>
                     /\ r.data = <<<<u, hash_password(p)>>>>
                     /\ o.ret.ok
                     /\ o.session_state = [logged_in |-> TRUE, username |-> u]
                     /\ o.db = db
               /\ ~match =>
                     /\ r.data = <<>>
                     /\ o = Completed(db, session_state,
                                      [fn |-> "login_user", ok |-> FALSE, data |-> <<>>],
                                      <<Elem("error", "Invalid credentials", <<>>)>>, NoFrame)
    /\ ret.fn = "login_user" =>
         /\ ret.ok <=> LoggedIn
         /\ ~ret.ok <=> Shows("error", "Invalid credentials")
         /\ ret.ok => /\ ret.data[1][1] = session_state["username"]
                      /\ [username |-> ret.data[1][1], password |-> ret.data[1][2]] \in db.users

\* A login failed while one username is registered and the other is not.
C2_Witness ==
    /\ ret.fn = "login_user" /\ ~ret.ok
    /\ Shows("error", "Invalid credentials")
    /\ Cardinality(db.users) = 1

\* The forms a request can carry, a left-out gender or goal included
AnyForm ==
    [name : Names, gender : Genders \cup {""}, goal : Goals \cup {""}, age : Ages,
     weight : Weights, height : Heights, bp : BloodPressures]

Blank(form) ==
    \/ form.name = "" \/ form.gender = "" \/ form.goal = "" \/ form.bp = ""
    \/ form.age = 0 \/ form.weight = 0 \/ form.height = 0

\* C3: a health-data request with an empty or zero field is answered with the warning
\* and changes nothing: no row is stored and no derivation function is called, so
\* calculate_bmi never sees a zero height; a registration whose two passwords differ is
\* answered with "Passwords do not match." and leaves users unchanged, whether or not
\* the username is free.
C3_ValidationRejects ==
    /\ LoggedIn =>
         \A form \in AnyForm :
            Blank(form) =>
               RunSubmit(db, session_state, form, clock, NoFault)
                 = Completed(db, session_state, NoRet,
                             <<Elem("warning", "Please fill all fields.", <<>>)>>, NoFrame)
    /\ (LoggedOut /\ Loaded) =>
         \A u \in Usernames, p \in Passwords, c \in Passwords :
            p # c =>
               RunRegister(db, session_state, u, p, c, NoFault)
                 = Completed(db, session_state, NoRet,
                             <<Elem("error", "Passwords do not match.", <<>>)>>, NoFrame)
    /\ \A c \in bmi_calls : c[1] # 0 /\ c[2] # 0
    /\ raised # "ZeroDivisionError"
    /\ \A r \in db.health_data :
          /\ r.name # "" /\ r.gender # "" /\ r.goal # "" /\ r.blood_pressure # ""
          /\ r.age # 0 /\ r.weight # 0 /\ r.height # 0

\* A request with a missing field was answered while records exist.
C3_Witness ==
    /\ LoggedIn
    /\ Shows("warning", "Please fill all fields.")
    /\ db.health_data # {}

\* The ids of health_data are unique and grew with every INSERT.
RecordsInOrder ==
    /\ \A r1, r2 \in db.health_data : r1.id = r2.id => r1 = r2
    /\ {r.id : r \in db.health_data} = {inserted[i].id : i \in DOMAIN inserted}
    /\ Cardinality(db.health_data) = Len(inserted)
    /\ \A i, j \in DOMAIN inserted : i < j => inserted[i].id < inserted[j].id

\* C4: health records are append-only.  No run changes or removes a row, and the rows
\* of a state are a prefix of the rows of the next; the only run that adds one is an
\* accepted Add Health Data request, which adds exactly one, with an id above every id
\* stored before; ids are unique and increase in insertion order.
C4_RecordsAppendOnly ==
    /\ RecordsInOrder
    /\ [][/\ RecordsInOrder'
          /\ \A r \in db.health_data : r \in db'.health_data
          /\ db'.health_data # db.health_data =>
                /\ Cardinality(db'.health_data) = Cardinality(db.health_data) + 1
                /\ SubSeq(TableScan(db'.health_data), 1, Cardinality(db.health_data))
                      = TableScan(db.health_data)
                /\ ret'.fn = "insert_health_data"
                /\ ui'[1].kind = "success"
                /\ \A new \in db'.health_data \ db.health_data :
                      \A old \in db.health_data : old.id < new.id
          /\ ret'.fn = "insert_health_data" => db'.health_data # db.health_data]_vars

\* A second record was stored.
C4_Witness ==
    /\ ret.fn = "insert_health_data"
    /\ Cardinality(db.health_data) = 2

RowById(id) == CHOOSE r \in db.health_data : r.id = id

\* The frame a user is due: their rows in the order of the INSERTs, each with the
\* clock of its INSERT
Due(u) ==
    LET Mine(e) == RowById(e.id).username = u
        mine == SelectSeq(inserted, Mine)
    IN [i \in 1..Len(mine) |->
          LET row == RowById(mine[i].id)
          IN [timestamp |-> mine[i].now, name |-> row.name, gender |-> row.gender,
              goal |-> row.goal, age |-> row.age, weight |-> row.weight,
              height |-> row.height, bmi |-> row.bmi,
              steps_recommended |-> row.steps_recommended]]

\* C5: get_user_data_df(u) returns exactly the rows whose username is u, none of
\* another user, in insertion order (the store scans by rowid), and their timestamps do
\* not decrease (the clock is not set back).
C5_FetchInInsertionOrder ==
    /\ Loaded =>
         \A u \in Usernames \cup {""} :
            LET r == get_user_data_df(db, u, NoFault)
            IN /\ r.raised = None
               /\ r.rows = Due(u)
               /\ Len(r.rows) = Cardinality({x \in db.health_data : x.username = u})
               /\ \A i, j \in DOMAIN r.rows :
                     i < j => r.rows[i].timestamp <= r.rows[j].timestamp
    /\ df.fetched => (df.username = session_state["username"] /\ df.rows = Due(df.username))

\* A user read two records of theirs that differ and carry the same timestamp.
C5_Witness ==
    /\ df.fetched
    /\ Len(df.rows) = 2
    /\ df.rows[1].timestamp = df.rows[2].timestamp
    /\ df.rows[1] # df.rows[2]

\* C9: create_tables is idempotent.  On an empty store it makes users and health_data
\* with the documented columns; on a store that has them (gender and goal included)
\* it raises nothing and changes neither a table nor a row.
C9_SchemaIdempotent ==
    LET documented ==
            [users |-> {"username", "password"},
             health_data |-> {"id", "username", "name", "gender", "goal", "age", "weight",
                              "height", "blood_pressure", "bmi", "steps_recommended",
                              "timestamp"}]
        first == create_tables(EmptyDB, NoFault)
        again == create_tables(db, NoFault)
    IN /\ first = [db |-> [EmptyDB EXCEPT !.tables = documented], raised |-> None, leaked |-> 0]
       /\ again.raised = None
       /\ again.db = [db EXCEPT !.tables = documented]
       /\ db.tables = documented => again = [db |-> db, raised |-> None, leaked |-> 0]
       /\ create_tables(again.db, NoFault) = again
       /\ raised = None
       /\ DOMAIN session_state # {} => db.tables = documented

\* The script ran again over a store that holds users and records.
C9_Witness ==
    /\ raised = None
    /\ Cardinality(db.users) = 2
    /\ Cardinality(db.health_data) = 2
    /\ db.tables["health_data"] = HealthColumns

\* C10: while a session is logged in, its username is that of a users row and the
\* credentials login_user accepted for it match that row; a logged-out session has the
\* empty username, and Logout leaves it so; a record is stored only by a logged-in
\* session, under its username, so every health_data username is a users username.
C10_SessionAndReferences ==
    /\ LoggedIn =>
          /\ Len(last_login) = 1
          /\ last_login[1].username = session_state["username"]
          /\ UserRow(last_login[1].username, last_login[1].password) \in db.users
          /\ RunLogout(db, session_state, NoFault).session_state
               = [logged_in |-> FALSE, username |-> ""]
    /\ LoggedOut => session_state["username"] = ""
    /\ \A r \in db.health_data : \E row \in db.users : row.username = r.username
    /\ ret.fn = "insert_health_data" =>
          /\ LoggedIn
          /\ RowById(inserted[Len(inserted)].id).username = session_state["username"]
    /\ Shows("success", "You have been logged out.") => LoggedOut

\* A session that stored a record has logged out.
C10_Witness ==
    /\ Shows("success", "You have been logged out.")
    /\ db.health_data # {}

\* C6: every store operation has closed the connection it opened when it hands control
\* back, also when one of its statements raises: no connection stays open between runs.
C6_ConnectionsReleased == open_conns = 0

\* C7: recommend_steps returns the integer part of (6000 + goal adjustment) times the
\* gender factor: adjustment 2000 / 1000 / 500 for "Weight Loss" / "Muscle Building" /
\* "Weight Gain" and 0 for anything else, factor 1.10 / 1.05 for "Male" / "Female" and
\* 1.00 for anything else; weight, height and age play no part.
C7_StepsFormula ==
    (call.fn = "recommend_steps" /\ value # <<>>) =>
       LET gender == call.args[4]
           goal == call.args[5]
           adjustment == CASE goal = "Weight Loss" -> 2000
                           [] goal = "Muscle Building" -> 1000
                           [] goal = "Weight Gain" -> 500
                           [] OTHER -> 0
           percent == CASE gender = "Male" -> 110
                        [] gender = "Female" -> 105
                        [] OTHER -> 100
       IN /\ value[1] = ((6000 + adjustment) * percent) \div 100
          /\ \A w \in SampleWeights, h \in SampleHeights, a \in SampleAges :
                recommend_steps(w, h, a, gender, goal) = value[1]
          /\ (gender = "Male" /\ goal = "Weight Loss") => value[1] = 8800
          /\ (gender = "Other" /\ goal = "Weight Gain") => value[1] = 6500

\* recommend_steps returned 7700 for a male who builds muscle (7000 * 1.1 is
\* 7700.000000000001 in binary64).
C7_Witness ==
    /\ call.fn = "recommend_steps"
    /\ call.args[4] = "Male" /\ call.args[5] = "Muscle Building"
    /\ value = <<7700>>

\* C8: interpret_bmi gives "Underweight" below 18.5, "Normal" from 18.5 to 24.9,
\* "Overweight" from 25 to 29.9 and "Obese" for everything else, the values strictly
\* between 24.9 and 25 included (BMI in hundredths).
C8_BmiCategories ==
    (call.fn = "interpret_bmi" /\ value # <<>>) =>
       LET bmi == call.args[1]
           category == value[1][1]
       IN /\ category = "Underweight" <=> bmi < 1850
          /\ category = "Normal" <=> (1850 <= bmi /\ bmi <= 2490)
          /\ category = "Overweight" <=> (2500 <= bmi /\ bmi <= 2990)
          /\ category = "Obese" <=> (bmi > 2990 \/ (2490 < bmi /\ bmi < 2500))
          /\ category \in {"Underweight", "Normal", "Overweight", "Obese"}

\* interpret_bmi was called with 24.95.
C8_Witness ==
    /\ call.fn = "interpret_bmi"
    /\ call.args = <<2495>>
    /\ value = <<<<"Obese", "Ideal: 18.5 - 24.9">>>>

====
